---- MODULE Spec2Model ----
(***************************************************************************)
(* KRNL x402 facilitator: the verify path (postVerifyPayment,              *)
(* krnlX402Middleware), the nonce-keyed workflow store with its background *)
(* poller, the settle path (postSettlePayment, fallbackSettle) and the     *)
(* external collaborators they talk to (the KRNL workflow engine, the chain*)
(* reader, the on-chain settle call).                                      *)
(*                                                                         *)
(* Request handlers are async functions on one event loop: every action    *)
(* below is the code that runs between two awaits of one handler.          *)
(***************************************************************************)
EXTENDS Integers, FiniteSets, Sequences, TLC

VARIABLES
    now,              \* Date.now(), in abstract time units
    privateKeySet,    \* process.env.PRIVATE_KEY is set
    workflowStore,    \* workflow-store: Map<paymentNonce, WorkflowTracking>
    settlementCache,  \* settle/handlers.ts: Map<settlementKey, SettleResponse>
    vreq,             \* the verify requests (postVerifyPayment invocations)
    sreq,             \* the settle requests (postSettlePayment invocations)
    poller,           \* the background pollers (pollAndUpdate invocations)
    engine            \* the workflow engine's jobs, by workflow id

vars == <<now, privateKeySet, workflowStore, settlementCache, vreq, sreq, poller, engine>>

----------------------------------------------------------------------------
(* Bounds of the model *)

\* number of verify requests ever received
MaxVerify == 2
\* number of settle requests ever received
MaxSettle == 2
\* the clock stops advancing here
MaxTime == 1
\* status polls a background poller makes before its 60 s ceiling
MaxPollsBackground == 2
\* status polls a settle request makes before its 30 s budget ends
MaxPollsSettle == 1

Nonces == {"nA", "nB"}
VReqs == 1..MaxVerify
SReqs == 1..MaxSettle
\* A workflow id (intentId) is the number of the verify request whose dispatch
\* the engine accepted; 0 stands for the placeholder id 'PENDING_EXECUTION'.
PlaceholderId == 0
\* Transaction references: a job's, and a direct settlement's (0 is none).
JobTx(j) == j
DirectTx(s) == MaxVerify + s

----------------------------------------------------------------------------
(* Payloads: the request bodies clients send *)

NETWORK_CONFIG == {"ethereum-sepolia", "base-sepolia", "optimism-sepolia",
                   "arbitrum-sepolia", "polygon-amoy"}

\* The property names an object literal inherits that are their own
\* lower-casing: the `in` operator finds them although they are no entries.
ObjectPrototype == {"constructor", "__proto__"}

\* String.prototype.toLowerCase on the network names that occur.
toLowerCase(s) == IF s = "Base-Sepolia" THEN "base-sepolia" ELSE s

\* A lower-cased name that is an entry of the registry.
lookup(network) == toLowerCase(network) \in NETWORK_CONFIG

\* The gate of the verify handler: `network.toLowerCase() in NETWORK_CONFIG`.
isKRNLNetworkSupported(network) == toLowerCase(network) \in NETWORK_CONFIG \cup ObjectPrototype

\* The time-dependent checks compare against now and now + 6.
ExpiryMargin == 6

\* The digest the signature must cover: keccak is modelled by the tuple of
\* what is hashed (domain separator of the asset, then the struct fields).
Eip712Hash(asset, from, to, value, validAfter, validBefore, nonce) ==
    <<"0x1901", asset, from, to, value, validAfter, validBefore, nonce>>

\* The digest of a signed message: the EIP-191 personal-message prefix for a
\* 32-byte raw message, then the message. The client signs the EIP-712 hash
\* this way and verifyMessage({message: {raw}}) recovers over the same digest.
hashMessage(raw) == <<"0x19 Ethereum Signed Message 32", raw>>

\* A body of {paymentPayload, paymentRequirements} with every field the
\* handlers read. signer/signed: who produced the signature and over what.
MkPayload(nonce, from, to, value, validAfter, validBefore, signer, network, scheme, payTo, maxAmount, intentSig) ==
    [ scheme |-> scheme, reqScheme |-> "exact", network |-> network,
      asset |-> "usdc", payTo |-> payTo, maxAmountRequired |-> maxAmount,
      from |-> from, to |-> to, value |-> value,
      validAfter |-> validAfter, validBefore |-> validBefore, nonce |-> nonce,
      signer |-> signer,
      signed |-> hashMessage(Eip712Hash("usdc", from, to, value, validAfter, validBefore, nonce)),
      intentSignature |-> intentSig ]

\* The bodies the modelled clients send, by name.
Profiles == {"good", "lowvalue", "badnet", "inherited", "nointent"}

\* Two bodies that differ in the account that signed and pays: two
\* authorizations with different `from` carrying the same nonce value.
PayerProfiles == {"good", "otherpayer"}

PayloadOf(profile, nonce) ==
    CASE profile = "good" ->
           MkPayload(nonce, "payerA", "shop", 2, 0, 100, "payerA", "base-sepolia",
                     "exact", "shop", 2, TRUE)
      [] profile = "lowvalue" ->
           MkPayload(nonce, "payerA", "shop", 1, 0, 100, "payerA", "base-sepolia",
                     "exact", "shop", 2, TRUE)
      [] profile = "badnet" ->
           MkPayload(nonce, "payerA", "shop", 2, 0, 100, "payerA", "solana",
                     "exact", "shop", 2, TRUE)
      [] profile = "inherited" ->
           MkPayload(nonce, "payerA", "shop", 2, 0, 100, "payerA", "constructor",
                     "exact", "shop", 2, TRUE)
      [] profile = "nointent" ->
           MkPayload(nonce, "payerA", "shop", 2, 0, 100, "payerA", "base-sepolia",
                     "exact", "shop", 2, FALSE)
      [] profile = "otherpayer" ->
           MkPayload(nonce, "payerB", "shop", 2, 0, 100, "payerB", "base-sepolia",
                     "exact", "shop", 2, TRUE)

\* What the chain reader answers during one verification.
\* domainRead, codeRead, balanceRead: "ok" or "fault" (RPC unreachable);
\* isContract: bytecode at `from` is nonempty; eip1271: what the account's
\* isValidSignature does ("magic", "other", "revert"); balance: balanceOf(from).
DefaultChain ==
    [ domainRead |-> "ok", codeRead |-> "ok", isContract |-> FALSE,
      eip1271 |-> "magic", balanceRead |-> "ok", balance |-> 2 ]

VerifyResponse(isValid, invalidReason, payer) ==
    [ isValid |-> isValid, invalidReason |-> invalidReason, payer |-> payer ]

NoReply == [ isValid |-> FALSE, invalidReason |-> "<no reply>", payer |-> "<no reply>" ]

\* A signature check that recovers over the EIP-712 hash itself, as
\* verifyTypedData does.
isValidSignature_typedData(p, chain) ==
    IF chain.isContract
    THEN chain.eip1271 = "magic"
    ELSE /\ p.signer = p.from
         /\ p.signed = Eip712Hash(p.asset, p.from, p.to, p.value, p.validAfter, p.validBefore, p.nonce)

\* A signature check in which a reverting isValidSignature call is not caught
\* as a refusal.
isValidSignature_revertPasses(p, chain) ==
    IF chain.isContract
    THEN chain.eip1271 # "other"
    ELSE /\ p.signer = p.from
         /\ p.signed = hashMessage(Eip712Hash(p.asset, p.from, p.to, p.value, p.validAfter, p.validBefore, p.nonce))

\* A signature check that looks at who signed but not at what was signed.
isValidSignature_signerOnly(p, chain) ==
    IF chain.isContract THEN chain.eip1271 = "magic" ELSE p.signer = p.from

\* Step 4 of the checklist: a contract account is asked through EIP-1271
\* (any exception of the call counts as invalid); for an EOA the signature
\* must recover to `from` over the personal-message digest of the EIP-712
\* hash of the fields as sent.
isValidSignature(p, chain) ==
    IF chain.isContract
    THEN chain.eip1271 = "magic"
    ELSE /\ p.signer = p.from
         /\ p.signed = hashMessage(Eip712Hash(p.asset, p.from, p.to, p.value, p.validAfter,
                                              p.validBefore, p.nonce))

\* An expiry test that also turns away an authorization living exactly the margin.
expiresTooSoon_inclusive(p, t) == p.validBefore <= t + ExpiryMargin

\* Step 6: validBefore must be at least 6 seconds ahead.
expiresTooSoon(p, t) == p.validBefore < t + ExpiryMargin

\* Step 7: validAfter must not be in the future.
notYetValid(p, t) == p.validAfter > t

\* A balance check that treats an unanswered balance query as a failed check.
insufficientFunds_faultFails(p, chain) ==
    chain.balanceRead = "fault" \/ chain.balance < p.maxAmountRequired

\* Step 8: the balance read, inside its own try/catch: a failed read is
\* logged and skipped.
insufficientFunds(p, chain) ==
    chain.balanceRead = "ok" /\ chain.balance < p.maxAmountRequired

\* A value check that wants more than the required amount.
valueTooLow_strict(p) == p.value <= p.maxAmountRequired

\* Step 9: the authorized value must cover the required amount.
valueTooLow(p) == p.value < p.maxAmountRequired

\* A validator that checks the value before the signature: the checklist
\* in another order.
verifyPaymentForKRNL_valueFirst(p, chain, t) ==
    IF p.scheme # "exact" \/ p.reqScheme # "exact"
    THEN VerifyResponse(FALSE, "unsupported_scheme", p.from)
    ELSE IF ~lookup(p.network)
    THEN VerifyResponse(FALSE, "invalid_network", p.from)
    ELSE IF chain.domainRead = "fault" \/ chain.codeRead = "fault"
    THEN VerifyResponse(FALSE, "invalid_network", p.from)
    ELSE IF valueTooLow(p)
    THEN VerifyResponse(FALSE, "invalid_exact_evm_payload_authorization_value", p.from)
    ELSE IF ~isValidSignature(p, chain)
    THEN VerifyResponse(FALSE, "invalid_exact_evm_payload_signature", p.from)
    ELSE IF p.to # p.payTo
    THEN VerifyResponse(FALSE, "invalid_exact_evm_payload_recipient_mismatch", p.from)
    ELSE IF expiresTooSoon(p, t)
    THEN VerifyResponse(FALSE, "invalid_exact_evm_payload_authorization_valid_before", p.from)
    ELSE IF notYetValid(p, t)
    THEN VerifyResponse(FALSE, "invalid_exact_evm_payload_authorization_valid_after", p.from)
    ELSE IF insufficientFunds(p, chain)
    THEN VerifyResponse(FALSE, "insufficient_funds", p.from)
    ELSE VerifyResponse(TRUE, "none", p.from)

\* verifyPaymentForKRNL: the ordered checklist. Any exception inside the
\* try block (a chain read that fails outside the balance check) lands in
\* the catch, which answers 'invalid_network'; so does the read of
\* networkConfig.chain.name when the name found is an inherited property.
verifyPaymentForKRNL(p, chain, t) ==
    IF p.scheme # "exact" \/ p.reqScheme # "exact"
    THEN VerifyResponse(FALSE, "unsupported_scheme", p.from)
    ELSE IF ~lookup(p.network)
    THEN VerifyResponse(FALSE, "invalid_network", p.from)
    ELSE IF chain.domainRead = "fault" \/ chain.codeRead = "fault"
    THEN VerifyResponse(FALSE, "invalid_network", p.from)
    ELSE IF ~isValidSignature(p, chain)
    THEN VerifyResponse(FALSE, "invalid_exact_evm_payload_signature", p.from)
    ELSE IF p.to # p.payTo
    THEN VerifyResponse(FALSE, "invalid_exact_evm_payload_recipient_mismatch", p.from)
    ELSE IF expiresTooSoon(p, t)
    THEN VerifyResponse(FALSE, "invalid_exact_evm_payload_authorization_valid_before", p.from)
    ELSE IF notYetValid(p, t)
    THEN VerifyResponse(FALSE, "invalid_exact_evm_payload_authorization_valid_after", p.from)
    ELSE IF insufficientFunds(p, chain)
    THEN VerifyResponse(FALSE, "insufficient_funds", p.from)
    ELSE IF valueTooLow(p)
    THEN VerifyResponse(FALSE, "invalid_exact_evm_payload_authorization_value", p.from)
    ELSE VerifyResponse(TRUE, "none", p.from)

----------------------------------------------------------------------------
(* The workflow store *)

NoEntry == [ status |-> "absent" ]

NoResult ==
    [ success |-> FALSE, transaction |-> 0, network |-> "<none>",
      payer |-> "<none>", errorReason |-> "<none>" ]

SettleResponse(success, transaction, network, payer, errorReason) ==
    [ success |-> success, transaction |-> transaction, network |-> network,
      payer |-> payer, errorReason |-> errorReason ]

\* WorkflowStatus objects kept in an entry: undefined, or what was recorded.
NoWorkflowStatus == [ status |-> "undefined", error |-> "none" ]

\* A store whose trackWorkflow records nothing: the properties that rest on
\* the nonce being tracked before the dispatch fail with it.
trackWorkflow_skipped(store, paymentNonce, workflowId, t) == store

\* trackWorkflow: Map.set of a fresh entry in status 'pending'.
trackWorkflow(store, paymentNonce, workflowId, t) ==
    [ store EXCEPT ![paymentNonce] =
        [ workflowId |-> workflowId, startedAt |-> t, status |-> "pending",
          workflowStatus |-> NoWorkflowStatus, settleResult |-> NoResult ] ]

\* A lookup that never finds the entry: every verify request then tracks
\* its nonce afresh, over whatever the entry had reached.
getWorkflowByNonce_absent(store, paymentNonce) == NoEntry

getWorkflowByNonce(store, paymentNonce) == store[paymentNonce]

\* An update that is not keyed by the nonce: it overwrites every entry of
\* the store.
updateWorkflowStatus_everyEntry(store, paymentNonce, status, workflowStatus, settleResult) ==
    [ n \in Nonces |->
        IF store[n] = NoEntry THEN store[n]
        ELSE [ store[n] EXCEPT !.status = status, !.workflowStatus = workflowStatus,
                               !.settleResult = settleResult ] ]

\* updateWorkflowStatus: overwrites status, workflowStatus and settleResult
\* of an existing entry; does nothing when the nonce has no entry.
updateWorkflowStatus(store, paymentNonce, status, workflowStatus, settleResult) ==
    IF store[paymentNonce] = NoEntry
    THEN store
    ELSE [ store EXCEPT ![paymentNonce].status = status,
                        ![paymentNonce].workflowStatus = workflowStatus,
                        ![paymentNonce].settleResult = settleResult ]

\* A sweep that also deletes the entries whose age equals maxAgeMs.
cleanupOldEntries_inclusive(store, maxAgeMs, t) ==
    [ n \in Nonces |->
        IF store[n] # NoEntry /\ t - store[n].startedAt >= maxAgeMs
        THEN NoEntry ELSE store[n] ]

\* cleanupOldEntries: deletes every entry older than maxAgeMs.
cleanupOldEntries(store, maxAgeMs, t) ==
    [ n \in Nonces |->
        IF store[n] # NoEntry /\ t - store[n].startedAt > maxAgeMs
        THEN NoEntry ELSE store[n] ]

----------------------------------------------------------------------------
(* The workflow engine (external): dispatch and status *)

\* What krnl_workflowStatus can answer for a workflow id: a transport fault,
\* or a result with a status code (1 in progress, 2 completed with the
\* transaction hash in `result`, 3 or negative failed, anything else unknown).
\* The placeholder id names no job of the engine.
EngineStatusReplies(id) ==
    LET fault == [ kind |-> "fault", code |-> 0, result |-> 0 ]
        ok(code, result) == [ kind |-> "ok", code |-> code, result |-> result ]
    IN  IF id = PlaceholderId \/ engine[id] = "none" THEN { fault, ok(0, 0) }
        ELSE IF engine[id] = "running" THEN { fault, ok(1, 0), ok(0, 0) }
        ELSE IF engine[id] = "completed" THEN { fault, ok(2, JobTx(id)) }
        ELSE IF engine[id] = "completed_notx" THEN { fault, ok(2, 0) }
        ELSE { fault, ok(3, 0), ok(-1, 0) }

\* KRNLClient.getWorkflowStatus: maps the code to a WorkflowStatus
\* (a fault is rethrown: status "throw").
getWorkflowStatus(raw) ==
    IF raw.kind = "fault"
    THEN [ status |-> "throw", transactionHash |-> 0, error |-> "transport" ]
    ELSE IF raw.code = 1
    THEN [ status |-> "running", transactionHash |-> 0, error |-> "none" ]
    ELSE IF raw.code = 2
    THEN [ status |-> "completed", transactionHash |-> raw.result, error |-> "none" ]
    ELSE IF raw.code = 3 \/ raw.code < 0
    THEN [ status |-> "failed", transactionHash |-> 0, error |-> "engine_error" ]
    ELSE [ status |-> "pending", transactionHash |-> 0, error |-> "none" ]

\* One iteration of KRNLClient.pollWorkflowUntilComplete's loop body:
\* "return" the completed status, "throw", or "sleep" until the next poll.
PollIteration(raw) ==
    LET st == getWorkflowStatus(raw)
    IN  IF st.status = "throw" THEN [ outcome |-> "throw", st |-> st ]
        ELSE IF st.status = "completed" THEN [ outcome |-> "return", st |-> st ]
        ELSE IF st.status = "failed" THEN [ outcome |-> "throw", st |-> st ]
        ELSE [ outcome |-> "sleep", st |-> st ]

----------------------------------------------------------------------------
(* Initial state *)

IdleVerify ==
    [ pc |-> "idle", nonce |-> "-", profile |-> "-", internal |-> FALSE,
      dispatch |-> "none", reply |-> NoReply ]

IdleSettle ==
    [ pc |-> "idle", nonce |-> "-", profile |-> "-", workflowId |-> PlaceholderId,
      polls |-> 0, reply |-> NoResult ]

IdlePoller == [ pc |-> "none", nonce |-> "-", polls |-> 0 ]

Init ==
    /\ now = 0
    /\ privateKeySet \in BOOLEAN
    /\ workflowStore = [ n \in Nonces |-> NoEntry ]
    /\ settlementCache = [ n \in Nonces |-> NoResult ]
    /\ vreq = [ v \in VReqs |-> IdleVerify ]
    /\ sreq = [ s \in SReqs |-> IdleSettle ]
    /\ poller = [ v \in VReqs |-> IdlePoller ]
    /\ engine = [ v \in VReqs |-> "none" ]

----------------------------------------------------------------------------
(* POST /facilitator/verify *)

VerifyDone(r, reply) == [ r EXCEPT !.pc = "done", !.reply = reply ]

\* The middleware of the earlier revisions: no duplicate check and no
\* tracking before the dispatch, every request goes on to dispatch.
krnlX402Middleware_untracked(r, store, t) ==
    [ req |-> [ r EXCEPT !.pc = "build" ], store |-> store ]

\* A middleware that answers a repeated nonce from its entry and then tracks
\* the nonce again.
krnlX402Middleware_retrack(r, store, t) ==
    IF store[r.nonce] # NoEntry
    THEN [ req |-> VerifyDone(r, VerifyResponse(TRUE, "none", PayloadOf(r.profile, r.nonce).from)),
           store |-> trackWorkflow(store, r.nonce, PlaceholderId, t) ]
    ELSE [ req |-> [ r EXCEPT !.pc = "build" ],
           store |-> trackWorkflow(store, r.nonce, PlaceholderId, t) ]

\* A middleware that tracks the nonce without looking for an entry first.
krnlX402Middleware_noDedup(r, store, t) ==
    [ req |-> [ r EXCEPT !.pc = "build" ],
      store |-> trackWorkflow(store, r.nonce, PlaceholderId, t) ]

\* krnlX402Middleware up to `await buildX402VerifySettleWorkflow`: a nonce
\* already tracked is answered valid at once; otherwise the nonce is tracked
\* under the placeholder id before anything is awaited. The result is the
\* request's next position and the store.
krnlX402Middleware(r, store, t) ==
    LET p == PayloadOf(r.profile, r.nonce)
    IN  IF getWorkflowByNonce(store, r.nonce) # NoEntry
        THEN [ req |-> VerifyDone(r, VerifyResponse(TRUE, "none", p.from)), store |-> store ]
        ELSE [ req |-> [ r EXCEPT !.pc = "build" ],
               store |-> trackWorkflow(store, r.nonce, PlaceholderId, t) ]

\* A handler that does not look at the x-krnl-internal header: every request
\* goes to krnlX402Middleware.
postVerifyPayment_headerIgnored(v, n, profile, internal) ==
    LET p == PayloadOf(profile, n)
        r == [ IdleVerify EXCEPT !.nonce = n, !.profile = profile, !.internal = internal ]
        m == krnlX402Middleware(r, workflowStore, now)
    IN  /\ vreq[v].pc = "idle"
        /\ \A u \in VReqs : u < v => vreq[u].pc # "idle"
        /\ IF ~isKRNLNetworkSupported(p.network)
           THEN /\ vreq' = [ vreq EXCEPT ![v] =
                              VerifyDone(r, VerifyResponse(FALSE, "invalid_network", p.from)) ]
                /\ UNCHANGED workflowStore
           ELSE /\ vreq' = [ vreq EXCEPT ![v] = m.req ]
                /\ workflowStore' = m.store
        /\ UNCHANGED <<now, privateKeySet, settlementCache, sreq, poller, engine>>

\* postVerifyPayment up to its first await: the network gate, then either the
\* internal branch (verifyPaymentForKRNL only) or krnlX402Middleware.
postVerifyPayment(v, n, profile, internal) ==
    LET p == PayloadOf(profile, n)
        r == [ IdleVerify EXCEPT !.nonce = n, !.profile = profile, !.internal = internal ]
        m == krnlX402Middleware(r, workflowStore, now)
    IN  /\ vreq[v].pc = "idle"
        /\ \A u \in VReqs : u < v => vreq[u].pc # "idle"
        /\ IF ~isKRNLNetworkSupported(p.network)
           THEN /\ vreq' = [ vreq EXCEPT ![v] =
                              VerifyDone(r, VerifyResponse(FALSE, "invalid_network", p.from)) ]
                /\ UNCHANGED workflowStore
           ELSE IF internal
           THEN /\ vreq' = [ vreq EXCEPT ![v] =
                              VerifyDone(r, verifyPaymentForKRNL(p, DefaultChain, now)) ]
                /\ UNCHANGED workflowStore
           ELSE /\ vreq' = [ vreq EXCEPT ![v] = m.req ]
                /\ workflowStore' = m.store
        /\ UNCHANGED <<now, privateKeySet, settlementCache, sreq, poller, engine>>

\* The verify requests received: client requests with each body, and the
\* internal requests the workflow's own verify step sends (x-krnl-internal).
VerifyInputs ==
    { <<profile, FALSE>> : profile \in Profiles } \cup
    { <<profile, TRUE>> : profile \in {"good", "lowvalue"} }

\* A request that is answered at once and touches no state (an unsupported
\* network, an internal request) commutes with every other step.
Stateless(input) == input[2] \/ ~isKRNLNetworkSupported(PayloadOf(input[1], "nA").network)

\* Symmetry: the first request carries nonce nA, and the stateless requests
\* are taken last.
VerifyStartOn(N) == \E v \in VReqs, n \in N, input \in VerifyInputs :
    /\ v = 1 => n = "nA"
    /\ Stateless(input) => v = MaxVerify /\ n = "nA"
    /\ postVerifyPayment(v, n, input[1], input[2])

\* Requests all carrying one nonce.
VerifyStart == VerifyStartOn({"nA"})

\* krnlX402Middleware after buildX402VerifySettleWorkflow settles: the build
\* throws when the client sent no intent signature (postVerifyPayment's catch
\* answers), otherwise krnl_executeWorkflow is sent to the engine.
VerifyBuilt == \E v \in VReqs :
    LET r == vreq[v]
        p == PayloadOf(r.profile, r.nonce)
    IN  /\ r.pc = "build"
        /\ IF ~p.intentSignature
           THEN vreq' = [ vreq EXCEPT ![v] =
                    VerifyDone(r, VerifyResponse(FALSE, "unexpected_verify_error", "undefined")) ]
           ELSE vreq' = [ vreq EXCEPT ![v] = [ r EXCEPT !.pc = "dispatch", !.dispatch = "sent" ] ]
        /\ UNCHANGED <<now, privateKeySet, workflowStore, settlementCache, sreq, poller, engine>>

\* The engine answers krnl_executeWorkflow: it accepts the workflow and
\* starts job v, rejects it (or the call fails), or accepts without an intentId.
EngineAdmit == \E v \in VReqs, outcome \in {"accepted", "rejected", "noid"} :
    /\ vreq[v].dispatch = "sent"
    /\ vreq' = [ vreq EXCEPT ![v].dispatch = outcome ]
    /\ engine' = IF outcome = "accepted" THEN [ engine EXCEPT ![v] = "running" ] ELSE engine
    /\ UNCHANGED <<now, privateKeySet, workflowStore, settlementCache, sreq, poller>>

\* A running job ends: settled on chain, completed without a settlement
\* reference, or failed.
EngineFinish == \E j \in VReqs, outcome \in {"completed", "completed_notx", "failed"} :
    /\ engine[j] = "running"
    /\ engine' = [ engine EXCEPT ![j] = outcome ]
    /\ UNCHANGED <<now, privateKeySet, workflowStore, settlementCache, vreq, sreq, poller>>

\* startBackgroundPolling: marks the entry 'running' and starts pollAndUpdate,
\* which runs up to its first status request.
startBackgroundPolling(store, paymentNonce) ==
    updateWorkflowStatus(store, paymentNonce, "running", NoWorkflowStatus, NoResult)

\* The failed-dispatch branch of krnlX402Middleware: the pre-tracked entry is
\* marked failed in place.
markDispatchFailed(store, paymentNonce) ==
    IF getWorkflowByNonce(store, paymentNonce) = NoEntry
    THEN store
    ELSE [ store EXCEPT ![paymentNonce].status = "failed",
                        ![paymentNonce].workflowStatus =
                            [ status |-> "failed", error |-> "dispatch_error" ] ]

\* The accepted branch: the real workflow id replaces the placeholder.
attachWorkflowId(store, paymentNonce, workflowId) ==
    IF getWorkflowByNonce(store, paymentNonce) = NoEntry
    THEN store
    ELSE [ store EXCEPT ![paymentNonce].workflowId = workflowId ]

\* A handler that resumes only once the dispatched job has ended at the
\* engine: a verify path that waits for the settlement.
DispatchReturned_afterJob(v) ==
    /\ vreq[v].pc = "dispatch"
    /\ vreq[v].dispatch \in {"accepted", "rejected", "noid"}
    /\ vreq[v].dispatch = "accepted" => engine[v] \in {"completed", "completed_notx", "failed"}

\* `await krnlClient.executeWorkflow(workflowDSL)` has settled: the engine's
\* answer to the dispatch is in, whatever the job itself is doing.
DispatchReturned(v) ==
    /\ vreq[v].pc = "dispatch"
    /\ vreq[v].dispatch \in {"accepted", "rejected", "noid"}

\* krnlX402Middleware after `await krnlClient.executeWorkflow` returns.
VerifyDispatchReturn == \E v \in VReqs :
    LET r == vreq[v]
        p == PayloadOf(r.profile, r.nonce)
    IN  /\ DispatchReturned(v)
        /\ IF r.dispatch = "rejected"
           THEN /\ workflowStore' = markDispatchFailed(workflowStore, r.nonce)
                /\ vreq' = [ vreq EXCEPT ![v] =
                       VerifyDone(r, VerifyResponse(FALSE, "unexpected_verify_error", p.from)) ]
                /\ UNCHANGED poller
           ELSE IF r.dispatch = "noid"
           THEN /\ vreq' = [ vreq EXCEPT ![v] =
                       VerifyDone(r, VerifyResponse(FALSE, "unexpected_verify_error", p.from)) ]
                /\ UNCHANGED <<workflowStore, poller>>
           ELSE /\ workflowStore' =
                       startBackgroundPolling(attachWorkflowId(workflowStore, r.nonce, v), r.nonce)
                /\ poller' = [ poller EXCEPT ![v] =
                                  [ pc |-> "polling", nonce |-> r.nonce, polls |-> 1 ] ]
                /\ vreq' = [ vreq EXCEPT ![v] =
                       VerifyDone(r, VerifyResponse(TRUE, "none", p.from)) ]
        /\ UNCHANGED <<now, privateKeySet, settlementCache, sreq, engine>>

----------------------------------------------------------------------------
(* The background poller *)

\* A pollAndUpdate that records the completion without its settle result.
pollAndUpdate_noResult(store, paymentNonce, it) ==
    IF it.outcome = "return" /\ it.st.transactionHash # 0
    THEN updateWorkflowStatus(store, paymentNonce, "completed",
             [ status |-> "completed", error |-> "none" ], NoResult)
    ELSE updateWorkflowStatus(store, paymentNonce, "failed", NoWorkflowStatus, NoResult)

\* A pollAndUpdate that does not ask for the transaction hash: every
\* completed status is stored as 'completed'.
pollAndUpdate_hashNotRequired(store, paymentNonce, it) ==
    IF it.outcome = "return"
    THEN updateWorkflowStatus(store, paymentNonce, "completed",
             [ status |-> "completed", error |-> "none" ],
             SettleResponse(TRUE, it.st.transactionHash, "base-sepolia", "undefined", "none"))
    ELSE updateWorkflowStatus(store, paymentNonce, "failed", NoWorkflowStatus, NoResult)

\* A pollAndUpdate whose catch records nothing: a poller that ends on a throw
\* (failure, fault, ceiling) leaves the entry running.
pollAndUpdate_silentThrow(store, paymentNonce, it) ==
    IF it.outcome = "return" /\ it.st.transactionHash # 0
    THEN updateWorkflowStatus(store, paymentNonce, "completed",
             [ status |-> "completed", error |-> "none" ],
             SettleResponse(TRUE, it.st.transactionHash, "base-sepolia", "undefined", "none"))
    ELSE store

\* pollAndUpdate once pollFn has settled: a completed status with a
\* transaction hash is stored as 'completed' with the settle result built
\* from it (the engine's result carries no network and no payer: the network
\* defaults to 'base-sepolia'); a completed status without a hash is stored
\* as 'failed' with that status; a throw is stored as 'failed' with nothing.
pollAndUpdate(store, paymentNonce, it) ==
    IF it.outcome = "return" /\ it.st.transactionHash # 0
    THEN updateWorkflowStatus(store, paymentNonce, "completed",
             [ status |-> "completed", error |-> "none" ],
             SettleResponse(TRUE, it.st.transactionHash, "base-sepolia", "undefined", "none"))
    ELSE IF it.outcome = "return"
    THEN updateWorkflowStatus(store, paymentNonce, "failed",
             [ status |-> "completed", error |-> "none" ], NoResult)
    ELSE updateWorkflowStatus(store, paymentNonce, "failed", NoWorkflowStatus, NoResult)

\* pollWorkflowUntilComplete's throw after its loop: the ceiling has passed.
PollTimeout == [ outcome |-> "throw",
                 st |-> [ status |-> "throw", transactionHash |-> 0, error |-> "timeout" ] ]

\* The poller of job v receives the answer to its status request: it ends
\* (completed, failed, fault) or goes to sleep for the poll interval.
PollerStatusReply == \E v \in VReqs : \E raw \in EngineStatusReplies(v) :
    LET q == poller[v]
        it == PollIteration(raw)
    IN  /\ q.pc = "polling"
        /\ IF it.outcome = "sleep"
           THEN /\ poller' = [ poller EXCEPT ![v].pc = "sleeping" ]
                /\ UNCHANGED workflowStore
           ELSE /\ poller' = [ poller EXCEPT ![v].pc = "done" ]
                /\ workflowStore' = pollAndUpdate(workflowStore, q.nonce, it)
        /\ UNCHANGED <<now, privateKeySet, settlementCache, vreq, sreq, engine>>

\* The poller wakes: the 60 s ceiling has not passed and it polls again, or
\* it has passed and pollWorkflowUntilComplete throws.
PollerWake == \E v \in VReqs, timedOut \in BOOLEAN :
    LET q == poller[v]
    IN  /\ q.pc = "sleeping"
        /\ IF ~timedOut
           THEN /\ q.polls < MaxPollsBackground
                /\ poller' = [ poller EXCEPT ![v].pc = "polling", ![v].polls = q.polls + 1 ]
                /\ UNCHANGED workflowStore
           ELSE /\ poller' = [ poller EXCEPT ![v].pc = "done" ]
                /\ workflowStore' = pollAndUpdate(workflowStore, q.nonce, PollTimeout)
        /\ UNCHANGED <<now, privateKeySet, settlementCache, vreq, sreq, engine>>

----------------------------------------------------------------------------
(* POST /facilitator/settle *)

SettleDone(r, reply) == [ r EXCEPT !.pc = "done", !.reply = reply ]

\* The body of settle request r.
SettlePayload(r) == PayloadOf(r.profile, r.nonce)

\* createSettlementKey: the authorization's nonce.
createSettlementKey(p) == p.nonce

\* fallbackSettle up to its first await: the legacy cache, the PRIVATE_KEY
\* check, then `await createSigner`.
fallbackSettle(r, cache, keySet) ==
    LET p == SettlePayload(r)
    IN  IF cache[createSettlementKey(p)] # NoResult
        THEN SettleDone(r, cache[createSettlementKey(p)])
        ELSE IF ~keySet
        THEN SettleDone(r, SettleResponse(FALSE, 0, p.network, "undefined",
                                          "unexpected_settle_error"))
        ELSE [ r EXCEPT !.pc = "chain" ]

\* postSettlePayment up to its first await.
postSettlePayment(r, store, cache, keySet) ==
    LET p == SettlePayload(r)
        workflow == getWorkflowByNonce(store, r.nonce)
    IN  IF workflow = NoEntry
        THEN IF cache[createSettlementKey(p)] # NoResult
             THEN SettleDone(r, cache[createSettlementKey(p)])
             ELSE fallbackSettle(r, cache, keySet)
        ELSE IF workflow.status = "completed" /\ workflow.settleResult # NoResult
        THEN SettleDone(r, workflow.settleResult)
        ELSE IF workflow.status = "failed"
        THEN fallbackSettle(r, cache, keySet)
        ELSE IF workflow.status \in {"pending", "running"}
        THEN [ r EXCEPT !.pc = "poll", !.workflowId = workflow.workflowId, !.polls = 1 ]
        ELSE fallbackSettle(r, cache, keySet)

SettleStartFrom(S, N, P) == \E s \in S, n \in N, profile \in P :
    /\ sreq[s].pc = "idle"
    /\ \A u \in SReqs : u < s => sreq[u].pc # "idle"
    /\ sreq' = [ sreq EXCEPT ![s] =
                   postSettlePayment([ IdleSettle EXCEPT !.nonce = n, !.profile = profile ],
                                     workflowStore, settlementCache, privateKeySet) ]
    /\ UNCHANGED <<now, privateKeySet, workflowStore, settlementCache, vreq, poller, engine>>

\* Settle requests with the body the resource server sends for payerA.
SettleStartOn(S, N) == SettleStartFrom(S, N, {"good"})

SettleStart == SettleStartOn(SReqs, {"nA"})

\* The settle request receives the answer to its status request. A completed
\* status with a hash is returned to the caller; a status still in progress
\* puts it to sleep; everything else (completed without hash, failed, fault)
\* falls back.
SettlePollReply == \E s \in SReqs : \E raw \in EngineStatusReplies(sreq[s].workflowId) :
    LET r == sreq[s]
        p == SettlePayload(r)
        it == PollIteration(raw)
    IN  /\ r.pc = "poll"
        /\ sreq' = [ sreq EXCEPT ![s] =
              IF it.outcome = "sleep" THEN [ r EXCEPT !.pc = "sleep" ]
              ELSE IF it.outcome = "return" /\ it.st.transactionHash # 0
              THEN SettleDone(r, SettleResponse(TRUE, it.st.transactionHash,
                                                p.network, p.from, "none"))
              ELSE fallbackSettle(r, settlementCache, privateKeySet) ]
        /\ UNCHANGED <<now, privateKeySet, workflowStore, settlementCache, vreq, poller, engine>>

\* The settle request wakes: its 30 s budget has not passed and it polls
\* again, or it has passed, pollWorkflowUntilComplete throws and the handler
\* falls back.
SettleWake == \E s \in SReqs, timedOut \in BOOLEAN :
    LET r == sreq[s]
    IN  /\ r.pc = "sleep"
        /\ IF ~timedOut
           THEN /\ r.polls < MaxPollsSettle
                /\ sreq' = [ sreq EXCEPT ![s].pc = "poll", ![s].polls = r.polls + 1 ]
           ELSE sreq' = [ sreq EXCEPT ![s] = fallbackSettle(r, settlementCache, privateKeySet) ]
        /\ UNCHANGED <<now, privateKeySet, workflowStore, settlementCache, vreq, poller, engine>>

\* fallbackSettle after `await createSigner` and `await settle(...)`: settle
\* returned a successful result (cached under the nonce and returned) or a
\* failure result (returned), or one of the two threw (answered
\* unexpected_settle_error).
SettleChainReturn == \E s \in SReqs, outcome \in {"success", "failure", "throw"} :
    LET r == sreq[s]
        p == SettlePayload(r)
    IN  /\ r.pc = "chain"
        /\ IF outcome = "success"
           THEN LET res == SettleResponse(TRUE, DirectTx(s), p.network, p.from, "none")
                IN  /\ settlementCache' =
                           [ settlementCache EXCEPT ![createSettlementKey(p)] = res ]
                    /\ sreq' = [ sreq EXCEPT ![s] = SettleDone(r, res) ]
           ELSE /\ UNCHANGED settlementCache
                /\ sreq' = [ sreq EXCEPT ![s] =
                       SettleDone(r, SettleResponse(FALSE, 0, p.network, p.from,
                               IF outcome = "failure" THEN "invalid_transaction_state"
                               ELSE "unexpected_settle_error")) ]
        /\ UNCHANGED <<now, privateKeySet, workflowStore, vreq, poller, engine>>

----------------------------------------------------------------------------
(* Time and the periodic sweep *)

Tick ==
    /\ now < MaxTime
    /\ now' = now + 1
    /\ UNCHANGED <<privateKeySet, workflowStore, settlementCache, vreq, sreq, poller, engine>>

Sweep == \E maxAgeMs \in 0..MaxTime :
    /\ workflowStore' = cleanupOldEntries(workflowStore, maxAgeMs, now)
    /\ UNCHANGED <<now, privateKeySet, settlementCache, vreq, sreq, poller, engine>>

----------------------------------------------------------------------------
(* Specifications *)

\* The server as wired: nothing in it calls cleanupOldEntries, so nothing
\* reads an entry's age and time is left out.
Next ==
    \/ VerifyStart
    \/ VerifyBuilt
    \/ EngineAdmit
    \/ EngineFinish
    \/ VerifyDispatchReturn
    \/ PollerStatusReply
    \/ PollerWake
    \/ SettleStart
    \/ SettlePollReply
    \/ SettleWake
    \/ SettleChainReturn

Spec == Init /\ [][Next]_vars

\* The server with cleanupOldEntries called periodically, time passing, and
\* one settle request.
NextSweep ==
    \/ VerifyStart
    \/ VerifyBuilt
    \/ EngineAdmit
    \/ EngineFinish
    \/ VerifyDispatchReturn
    \/ PollerStatusReply
    \/ PollerWake
    \/ SettleStartOn({1}, {"nA"})
    \/ SettlePollReply
    \/ SettleWake
    \/ SettleChainReturn
    \/ Tick
    \/ Sweep

SpecSweep == Init /\ [][NextSweep]_vars

----------------------------------------------------------------------------
(* Properties *)

\* The verify requests received so far from clients for nonce n.
ClientVerifies(n) ==
    { v \in VReqs : vreq[v].pc # "idle" /\ vreq[v].nonce = n /\ ~vreq[v].internal }

\* The requests that sent krnl_executeWorkflow for nonce n.
DispatchCalls(n) == { v \in VReqs : vreq[v].nonce = n /\ vreq[v].dispatch # "none" }

\* The jobs the engine started for nonce n.
JobsOf(n) == { j \in VReqs : vreq[j].nonce = n /\ engine[j] # "none" }

\* A body the middleware can dispatch: a supported network and an intent
\* signature to build the workflow with.
Dispatchable(v) ==
    LET p == PayloadOf(vreq[v].profile, vreq[v].nonce)
    IN  isKRNLNetworkSupported(p.network) /\ p.intentSignature

C2_OneJobPerNonce ==
    \A n \in Nonces : Cardinality(JobsOf(n)) <= 1

\* C3: a step taken while an entry is completed or failed leaves the entry's
\* status, recorded workflow status and settle result as they are.
C3_TerminalFinal ==
    [][ \A n \in Nonces :
            ( workflowStore[n] # NoEntry /\ workflowStore[n].status \in {"completed", "failed"} )
            => /\ workflowStore'[n] # NoEntry
               /\ workflowStore'[n].status = workflowStore[n].status
               /\ workflowStore'[n].workflowStatus = workflowStore[n].workflowStatus
               /\ workflowStore'[n].settleResult = workflowStore[n].settleResult ]_vars

\* A completed entry after a settle request was answered from it and a repeated
\* verify request for its nonce was answered.
C3_Witness ==
    /\ workflowStore["nA"] # NoEntry
    /\ workflowStore["nA"].status = "completed"
    /\ sreq[1].pc = "done" /\ sreq[1].reply = workflowStore["nA"].settleResult
    /\ vreq[2].pc = "done" /\ vreq[2].nonce = "nA" /\ ~vreq[2].internal
    /\ vreq[2].reply.isValid /\ vreq[2].dispatch = "none"
    /\ poller[1].pc = "done"

\* What the validation checklist says of request v's body.
Validation(v) == verifyPaymentForKRNL(PayloadOf(vreq[v].profile, vreq[v].nonce), DefaultChain, now)

\* C4: a client verify request whose authorization fails the validation
\* checklist is never past the tracking step, never dispatches and is never
\* answered isValid:true.
C4_InvalidNeverTracked ==
    \A v \in VReqs :
        ( vreq[v].pc # "idle" /\ ~vreq[v].internal /\ ~Validation(v).isValid )
        => /\ vreq[v].pc = "done"
           /\ vreq[v].dispatch = "none"
           /\ ~vreq[v].reply.isValid

\* C5: whenever the dispatch for a nonce has been sent (whether the engine
\* has answered, the job is running or it has already finished), the tracker
\* holds an entry for that nonce.
C5_TrackedBeforeDispatch ==
    \A v \in VReqs :
        ( vreq[v].dispatch # "none" \/ engine[v] # "none" )
        => workflowStore[vreq[v].nonce] # NoEntry

\* The job has finished at the engine while the verify request is still
\* waiting for its dispatch call to return: the entry is there, pending under
\* the placeholder id.
C5_Witness ==
    /\ vreq[1].pc = "dispatch"
    /\ engine[1] = "completed"
    /\ workflowStore[vreq[1].nonce] # NoEntry
    /\ workflowStore[vreq[1].nonce].status = "pending"
    /\ workflowStore[vreq[1].nonce].workflowId = PlaceholderId

\* Settle request s takes its first step (postSettlePayment up to its first
\* await) in this transition.
SettleStarts(s) == sreq[s].pc = "idle" /\ sreq'[s].pc # "idle"

\* Settle request s has begun a settlement of its own: it is in, or has been
\* through, the direct on-chain settle call.
SettlesItself(r) == r.pc = "chain" \/ (r.pc = "done" /\ r.reply.transaction > MaxVerify)

\* C6: a settle request whose nonce has no tracker entry is answered at once
\* with the failure no_workflow_tracked; it dispatches nothing and starts no
\* on-chain settlement.
C6_UntrackedRefused ==
    [][ \A s \in SReqs :
            ( SettleStarts(s) /\ workflowStore[sreq'[s].nonce] = NoEntry )
            => /\ sreq'[s].pc = "done"
               /\ ~sreq'[s].reply.success
               /\ sreq'[s].reply.errorReason = "no_workflow_tracked"
               /\ vreq' = vreq /\ engine' = engine ]_vars

\* C7: a settle request that arrives when its nonce's entry is completed is
\* answered at once with success and the entry's stored settle result, whose
\* transaction is the job's; the step changes neither the store nor the
\* engine nor any verify request (nothing is dispatched).
C7_CompletedIsCached ==
    [][ \A s \in SReqs :
            LET e == workflowStore[sreq'[s].nonce]
            IN  ( SettleStarts(s) /\ e # NoEntry /\ e.status = "completed" )
                => /\ sreq'[s].pc = "done"
                   /\ sreq'[s].reply = e.settleResult
                   /\ sreq'[s].reply.success
                   /\ sreq'[s].reply.transaction = JobTx(e.workflowId)
                   /\ workflowStore' = workflowStore
                   /\ vreq' = vreq /\ engine' = engine ]_vars

\* Two settle requests answered from the completed entry: both replies are
\* its stored result.
C7_Witness ==
    /\ workflowStore["nA"] # NoEntry
    /\ workflowStore["nA"].status = "completed"
    /\ sreq[1].pc = "done" /\ sreq[1].nonce = "nA"
    /\ sreq[2].pc = "done" /\ sreq[2].nonce = "nA"
    /\ sreq[1].reply = workflowStore["nA"].settleResult
    /\ sreq[2].reply = sreq[1].reply
    /\ sreq[1].reply.transaction = JobTx(1)

\* C8: a settle request that arrives when its nonce's entry is failed is
\* answered at once with a failure; it starts no settlement of its own.
C8_FailedIsFailure ==
    [][ \A s \in SReqs :
            LET e == workflowStore[sreq'[s].nonce]
            IN  ( SettleStarts(s) /\ e # NoEntry /\ e.status = "failed" )
                => /\ sreq'[s].pc = "done"
                   /\ ~sreq'[s].reply.success
                   /\ ~SettlesItself(sreq'[s]) ]_vars

\* C9: when a settle request returns the completion its own status poll saw,
\* the tracker entry of its nonce is completed with that transaction.
C9_PolledTerminalStored ==
    [][ \A s \in SReqs :
            LET e == workflowStore'[sreq[s].nonce]
            IN  ( /\ sreq[s].pc = "poll" /\ sreq'[s].pc = "done"
                  /\ sreq'[s].reply.success
                  /\ sreq[s].workflowId # PlaceholderId
                  /\ sreq'[s].reply.transaction = JobTx(sreq[s].workflowId) )
                => /\ e # NoEntry
                   /\ e.status = "completed"
                   /\ e.settleResult.transaction = sreq'[s].reply.transaction ]_vars

\* C10: a settle request whose polling budget ends while it sleeps between
\* polls is answered with the failure workflow_timeout, starts no settlement
\* of its own and leaves the entry as it was.
C10_BudgetEndsInTimeout ==
    [][ \A s \in SReqs :
            ( sreq[s].pc = "sleep" /\ sreq'[s].pc \notin {"sleep", "poll"} )
            => /\ sreq'[s].pc = "done"
               /\ ~sreq'[s].reply.success
               /\ sreq'[s].reply.errorReason = "workflow_timeout"
               /\ workflowStore' = workflowStore ]_vars

\* The scheduling the liveness properties rest on: a handler or poller that
\* can resume does resume (one event loop, nothing blocks it), and every call
\* to the engine is answered or fails (the HTTP client's 60 s timeout). The
\* engine's jobs are under no obligation to end.
Fairness ==
    /\ WF_vars(VerifyBuilt)
    /\ WF_vars(EngineAdmit)
    /\ WF_vars(VerifyDispatchReturn)
    /\ WF_vars(PollerStatusReply)
    /\ WF_vars(PollerWake)

SpecLive == Spec /\ Fairness

\* C11: every verify request received is answered, although nothing obliges
\* the dispatched job to end: the verify path waits for the engine's answer
\* to the dispatch and for nothing else.
C11_VerifyNeverWaits ==
    \A v \in VReqs : (vreq[v].pc # "idle") ~> (vreq[v].pc = "done")

\* The request has been answered isValid:true while its job is still running
\* and the poller's first status request is still unanswered.
C11_Witness ==
    /\ vreq[1].pc = "done" /\ vreq[1].reply.isValid /\ vreq[1].dispatch = "accepted"
    /\ engine[1] = "running"
    /\ poller[1].pc = "polling" /\ poller[1].polls = 1
    /\ workflowStore[vreq[1].nonce].status = "running"

\* The entry of request v's nonce is completed or failed.
EntryTerminal(v) ==
    /\ vreq[v].pc # "idle"
    /\ workflowStore[vreq[v].nonce].status \in {"completed", "failed"}

\* C12: an entry whose dispatch the engine accepted eventually is completed
\* or failed, whether or not the engine's job ever ends: the poller stops at
\* a terminal status, a throw or its ceiling, and each of them is recorded.
C12_AcceptedReachesTerminal ==
    \A v \in VReqs : (vreq[v].dispatch = "accepted") ~> EntryTerminal(v)

\* The poller has used all its polls and ended, the entry is failed, and the
\* job at the engine is still running.
C12_Witness ==
    /\ vreq[1].dispatch = "accepted"
    /\ engine[1] = "running"
    /\ poller[1].pc = "done" /\ poller[1].polls = MaxPollsBackground
    /\ workflowStore[vreq[1].nonce].status = "failed"

\* C13: a status call that fails while the job is running or has completed
\* does not fail the entry: a poller step taken while its job is in one of
\* those states (where no status the engine reports is a failure) never
\* leaves the entry failed.
C13_TransientErrorRetried ==
    [][ \A v \in VReqs :
            ( /\ poller[v].pc = "polling"
              /\ poller'[v] # poller[v]
              /\ engine[v] \in {"running", "completed"}
              /\ workflowStore[poller[v].nonce].status = "running" )
            => workflowStore'[poller[v].nonce].status # "failed" ]_vars

\* The server receiving requests for two nonces, with one settle request.
NextTwo ==
    \/ VerifyStartOn(Nonces)
    \/ VerifyBuilt
    \/ EngineAdmit
    \/ EngineFinish
    \/ VerifyDispatchReturn
    \/ PollerStatusReply
    \/ PollerWake
    \/ SettleStartOn({1}, Nonces)
    \/ SettlePollReply
    \/ SettleWake
    \/ SettleChainReturn

SpecTwo == Init /\ [][NextTwo]_vars

\* C14: a step of the poller of one nonce (a status reply, a wake-up, its
\* failure or its timeout) changes no entry of any other nonce and no verify
\* or settle request.
C14_PollerIsolated ==
    [][ \A v \in VReqs :
            ( poller[v].pc \in {"polling", "sleeping"} /\ poller'[v] # poller[v] )
            => /\ \A n \in Nonces \ {poller[v].nonce} : workflowStore'[n] = workflowStore[n]
               /\ vreq' = vreq
               /\ sreq' = sreq ]_vars

\* The poller of nA has ended in failure with its job still running, while
\* the entry of nB is running under its own poller and the request for nB
\* was answered isValid:true.
C14_Witness ==
    /\ poller[1].nonce = "nA" /\ poller[1].pc = "done" /\ engine[1] = "running"
    /\ workflowStore["nA"].status = "failed"
    /\ poller[2].nonce = "nB" /\ poller[2].pc \in {"polling", "sleeping"}
    /\ workflowStore["nB"].status = "running"
    /\ vreq[2].pc = "done" /\ vreq[2].reply.isValid

\* The status changes the state machine allows.
LegalTransitions ==
    { <<"pending", "running">>, <<"running", "completed">>, <<"running", "failed">> }

\* C15: whenever a step changes the status of an entry, the change is
\* pending -> running, running -> completed or running -> failed.
C15_StateMachine ==
    [][ \A n \in Nonces :
            ( /\ workflowStore[n] # NoEntry /\ workflowStore'[n] # NoEntry
              /\ workflowStore'[n].status # workflowStore[n].status )
            => <<workflowStore[n].status, workflowStore'[n].status>> \in LegalTransitions ]_vars

----------------------------------------------------------------------------
(* The payment validator on its own *)

\* The fields an internal verify request can carry: recipients, values,
\* time bounds around the clock's range, signers, networks and schemes.
Recipients == {"shop", "other"}
Values == 1..2
ValidAfters == 0..(MaxTime + 1)
ValidBefores == (ExpiryMargin - 1)..(ExpiryMargin + MaxTime)
Signers == {"payerA", "mallory"}

\* The authorization the payer signed: valid on the default chain at any
\* time of the clock's range.
SignedOriginal ==
    MkPayload("nA", "payerA", "shop", 2, 0, ExpiryMargin + MaxTime, "payerA", "base-sepolia", "exact", "shop", 2, TRUE)

\* Network names a body can carry: an entry, an entry in another case, a
\* name that is no entry, and a name the registry object inherits.
Networks == {"base-sepolia", "Base-Sepolia", "solana", "constructor"}

\* How the signature of a body was made: by signMessage over the EIP-712
\* hash of the fields as sent ("personal", what the client does), by
\* signTypedData over the same fields ("typed"), or before the fields were
\* altered ("original": it still covers SignedOriginal).
Signings == {"personal", "typed", "original"}

\* A request body: the fields as sent and the signature that came with them.
ValidationBodies ==
    { [ MkPayload("nA", "payerA", to, value, validAfter, validBefore, signer,
                  network, scheme, "shop", 2, TRUE)
        EXCEPT !.signed = CASE signing = "personal" -> @
                            [] signing = "typed" -> @[2]
                            [] signing = "original" -> SignedOriginal.signed ] :
        to \in Recipients, value \in Values, validAfter \in ValidAfters,
        validBefore \in ValidBefores, signer \in Signers,
        network \in Networks, scheme \in {"exact", "upto"},
        signing \in Signings }

\* What the chain reader can answer during one verification.
ChainAnswers ==
    [ domainRead : {"ok", "fault"}, codeRead : {"ok", "fault"}, isContract : BOOLEAN,
      eip1271 : {"magic", "other", "revert"}, balanceRead : {"ok", "fault"},
      balance : Values ]

\* verifyPaymentForKRNL called once, on any body and any chain answers, at
\* the current time; the request record keeps the inputs and the result.
Validate ==
    /\ vreq[1].pc = "idle"
    /\ \E body \in ValidationBodies, chain \in ChainAnswers :
       vreq' = [ vreq EXCEPT ![1] =
                   [ pc |-> "done", nonce |-> body.nonce, profile |-> "-", internal |-> TRUE,
                     dispatch |-> "none", body |-> body, chain |-> chain, at |-> now,
                     reply |-> verifyPaymentForKRNL(body, chain, now) ] ]
    /\ UNCHANGED <<now, privateKeySet, workflowStore, settlementCache, sreq, poller, engine>>

InitValidate == Init /\ privateKeySet

NextValidate == Validate \/ Tick

SpecValidate == InitValidate /\ [][NextValidate]_vars

\* The validation performed: its inputs and its result.
Validated == vreq[1].pc = "done"
VBody == vreq[1].body
VChain == vreq[1].chain
VAt == vreq[1].at
VResult == vreq[1].reply

\* The signature as the checklist expects it: accepted by the contract
\* account, or made by `from` over exactly the fields that were sent.
SignatureCorrect(b, c) ==
    IF c.isContract THEN c.eip1271 = "magic"
    ELSE /\ b.signer = b.from
         /\ b.signed = << "0x19 Ethereum Signed Message 32",
                          <<"0x1901", b.asset, b.from, b.to, b.value, b.validAfter,
                            b.validBefore, b.nonce>> >>

\* The checklist in the order of the specification: for each check, whether
\* it fails on the input, and the reason the validator reports for it.
ChecklistFails(b, c, t) ==
    << b.scheme # "exact" \/ b.reqScheme # "exact",
       toLowerCase(b.network) \notin NETWORK_CONFIG,
       ~SignatureCorrect(b, c),
       b.to # b.payTo,
       b.validBefore < t + 6,
       b.validAfter > t,
       c.balanceRead = "ok" /\ c.balance < b.maxAmountRequired,
       b.value < b.maxAmountRequired >>

ChecklistReasons ==
    << "unsupported_scheme", "invalid_network", "invalid_exact_evm_payload_signature",
       "invalid_exact_evm_payload_recipient_mismatch",
       "invalid_exact_evm_payload_authorization_valid_before",
       "invalid_exact_evm_payload_authorization_valid_after",
       "insufficient_funds", "invalid_exact_evm_payload_authorization_value" >>

FailingChecks(b, c, t) == { i \in 1..Len(ChecklistReasons) : ChecklistFails(b, c, t)[i] }

\* The earliest failing check (0 when none fails).
FirstFailing(b, c, t) ==
    IF FailingChecks(b, c, t) = {} THEN 0
    ELSE CHOOSE i \in FailingChecks(b, c, t) : \A j \in FailingChecks(b, c, t) : i <= j

\* The chain reads the signature check needs (domain separator, bytecode)
\* were answered.
ReadsAnswered(c) == c.domainRead = "ok" /\ c.codeRead = "ok"

\* C16: when the chain reads are answered (or the scheme or network check
\* already fails), the validator reports exactly the reason of the earliest
\* failing check of the order scheme, network, signature, recipient,
\* validBefore, validAfter, balance, value, and isValid:true when none fails.
C16_FirstFailingCheckReported ==
    ( Validated /\ ( ReadsAnswered(VChain) \/ FirstFailing(VBody, VChain, VAt) \in {1, 2} ) )
    => IF FirstFailing(VBody, VChain, VAt) = 0
       THEN VResult.isValid /\ VResult.invalidReason = "none"
       ELSE /\ ~VResult.isValid
            /\ VResult.invalidReason = ChecklistReasons[FirstFailing(VBody, VChain, VAt)]

\* A validated input on which the recipient, the balance and the value check
\* all fail: the recipient mismatch is what is reported.
C16_Witness ==
    /\ Validated
    /\ FailingChecks(VBody, VChain, VAt) = {4, 7, 8}
    /\ VResult.invalidReason = "invalid_exact_evm_payload_recipient_mismatch"

\* The preconditions the specification names for a valid authorization:
\* correct signature, matching recipient, validBefore >= now + 6,
\* validAfter <= now, value >= maxAmountRequired.
NamedPreconditions(b, c, t) ==
    /\ SignatureCorrect(b, c)
    /\ b.to = b.payTo
    /\ b.validBefore >= t + 6
    /\ b.validAfter <= t
    /\ b.value >= b.maxAmountRequired

PlainChain(c) ==
    /\ ReadsAnswered(c) /\ ~c.isContract
    /\ c.balanceRead = "ok" /\ c.balance >= SignedOriginal.maxAmountRequired

\* The body is SignedOriginal with one authorization field changed so that
\* the field's own check fails; the reason belonging to that field.
\* The signature sent is left out of the comparison.
MutatedField(b, t) ==
    LET same(f) == b[f] = SignedOriginal[f]
    IN  IF ~same("to") /\ same("validBefore") /\ same("validAfter") /\ same("value")
        THEN "to"
        ELSE IF same("to") /\ ~same("validBefore") /\ same("validAfter") /\ same("value")
                /\ b.validBefore < t + 6
        THEN "validBefore"
        ELSE IF same("to") /\ same("validBefore") /\ ~same("validAfter") /\ same("value")
                /\ b.validAfter > t
        THEN "validAfter"
        ELSE IF same("to") /\ same("validBefore") /\ same("validAfter") /\ ~same("value")
                /\ b.value < b.maxAmountRequired
        THEN "value"
        ELSE "none"

FieldReason(f) ==
    CASE f = "to" -> "invalid_exact_evm_payload_recipient_mismatch"
      [] f = "validBefore" -> "invalid_exact_evm_payload_authorization_valid_before"
      [] f = "validAfter" -> "invalid_exact_evm_payload_authorization_valid_after"
      [] f = "value" -> "invalid_exact_evm_payload_authorization_value"

\* Scheme, network and requirements are those of SignedOriginal.
SameRequest(b) ==
    /\ b.scheme = SignedOriginal.scheme /\ b.network = SignedOriginal.network
    /\ b.from = SignedOriginal.from /\ b.nonce = SignedOriginal.nonce

ReachesTimeWindow(b, c) ==
    /\ b.scheme = "exact" /\ b.reqScheme = "exact"
    /\ toLowerCase(b.network) \in NETWORK_CONFIG
    /\ ReadsAnswered(c)
    /\ SignatureCorrect(b, c)
    /\ b.to = b.payTo

\* C19: an authorization that comes to the time window is rejected as
\* expiring too soon exactly when validBefore < now + 6, validBefore = now + 6
\* being let through; one that is let through is rejected as not yet valid
\* exactly when validAfter > now, validAfter = now being let through.
C19_TimeWindowBoundaries ==
    ( Validated /\ ReachesTimeWindow(VBody, VChain) )
    => /\ ( VResult.invalidReason = "invalid_exact_evm_payload_authorization_valid_before" )
          <=> ( VBody.validBefore < VAt + 6 )
       /\ ( VBody.validBefore >= VAt + 6 )
          => ( ( VResult.invalidReason = "invalid_exact_evm_payload_authorization_valid_after" )
               <=> ( VBody.validAfter > VAt ) )

\* An authorization with validBefore = now + 6 and validAfter = now, at a
\* time other than zero, is accepted.
C19_Witness ==
    /\ Validated /\ ReachesTimeWindow(VBody, VChain)
    /\ VAt = 1
    /\ VBody.validBefore = VAt + 6
    /\ VBody.validAfter = VAt
    /\ VResult.isValid

\* The validator comes to the balance check.
ReachesBalance(b, c, t) ==
    /\ ReachesTimeWindow(b, c)
    /\ b.validBefore >= t + 6
    /\ b.validAfter <= t

\* C20: when the balance query is not answered, the answer is the one the
\* value check alone gives (valid, or the value reason); when it is answered
\* with a balance below maxAmountRequired, the answer is isValid:false with
\* insufficient_funds.
C20_BalanceBestEffort ==
    ( Validated /\ ReachesBalance(VBody, VChain, VAt) )
    => /\ ( VChain.balanceRead = "fault" )
          => IF VBody.value < VBody.maxAmountRequired
             THEN /\ ~VResult.isValid
                  /\ VResult.invalidReason = "invalid_exact_evm_payload_authorization_value"
             ELSE VResult.isValid
       /\ ( VChain.balanceRead = "ok" /\ VChain.balance < VBody.maxAmountRequired )
          => /\ ~VResult.isValid
             /\ VResult.invalidReason = "insufficient_funds"

\* The balance query failed and the authorization was accepted all the same.
C20_Witness ==
    /\ Validated /\ ReachesBalance(VBody, VChain, VAt)
    /\ VChain.balanceRead = "fault"
    /\ VResult.isValid

\* C21: when the chain reader fails on the domain-separator read or on the
\* bytecode probe of an authorization whose scheme and network are in order,
\* the answer is isValid:false with unexpected_verify_error, never a
\* validation reason.
C21_InfraFaultIsUnexpectedError ==
    ( /\ Validated
      /\ VBody.scheme = "exact" /\ VBody.reqScheme = "exact"
      /\ toLowerCase(VBody.network) \in NETWORK_CONFIG
      /\ ~ReadsAnswered(VChain) )
    => /\ ~VResult.isValid
       /\ VResult.invalidReason = "unexpected_verify_error"

\* The validator comes to the signature check.
ReachesSignature(b, c) ==
    /\ b.scheme = "exact" /\ b.reqScheme = "exact"
    /\ toLowerCase(b.network) \in NETWORK_CONFIG
    /\ ReadsAnswered(c)

SignatureRejected == VResult.invalidReason = "invalid_exact_evm_payload_signature"

\* The signature is the one key k made with signMessage over the signing
\* hash of exactly the fields that were sent.
SignedBy(b, k) ==
    /\ b.signer = k
    /\ b.signed = << "0x19 Ethereum Signed Message 32",
                     <<"0x1901", b.asset, b.from, b.to, b.value, b.validAfter,
                       b.validBefore, b.nonce>> >>

\* The signature is k's ECDSA signature over the signing hash itself.
SignedHashBy(b, k) ==
    /\ b.signer = k
    /\ b.signed = <<"0x1901", b.asset, b.from, b.to, b.value, b.validAfter, b.validBefore, b.nonce>>

\* The answers of an account contract at `from` whose controller is key k: the
\* magic value for k's signature over the hash it is handed, another value
\* for anything else.
AccountOf(c, b, k) ==
    /\ c.isContract
    /\ c.eip1271 = IF SignedBy(b, k) THEN "magic" ELSE "other"

C23_RevertIsInvalidSignature ==
    ( Validated /\ ReachesSignature(VBody, VChain) )
    => /\ ( VChain.isContract /\ VChain.eip1271 \in {"revert", "other"} )
          => ( ~VResult.isValid /\ SignatureRejected )
       /\ VResult.invalidReason \notin {"unexpected_verify_error", "invalid_network"}

\* The isValidSignature call of a contract account reverted and the
\* authorization was turned away for its signature.
C23_Witness ==
    /\ Validated /\ ReachesSignature(VBody, VChain)
    /\ VChain.isContract /\ VChain.eip1271 = "revert"
    /\ ~VResult.isValid /\ SignatureRejected

\* C24: a verify request whose network is no entry of the registry is
\* answered in the step that receives it with isValid:false and
\* invalid_network, and that step changes neither the tracker nor the engine.
C24_UnknownNetworkNoEffect ==
    [][ \A v \in VReqs :
          ( /\ vreq[v].pc = "idle" /\ vreq'[v].pc # "idle"
            /\ ~lookup(PayloadOf(vreq'[v].profile, vreq'[v].nonce).network) )
          => /\ vreq'[v].pc = "done"
             /\ ~vreq'[v].reply.isValid
             /\ vreq'[v].reply.invalidReason = "invalid_network"
             /\ workflowStore' = workflowStore
             /\ engine' = engine ]_vars

\* C25: every answer of the verify endpoint carries a reason exactly when it
\* is isValid:false, and its payer is the `from` of the authorization sent.
C25_ReasonIffInvalidPayerEchoed ==
    \A v \in VReqs :
        vreq[v].pc = "done"
        => /\ ( vreq[v].reply.invalidReason # "none" ) <=> ~vreq[v].reply.isValid
           /\ vreq[v].reply.payer = PayloadOf(vreq[v].profile, vreq[v].nonce).from

\* C26: a settle request answered with the transaction of the completed job
\* of its nonce, from the entry the background poller wrote or from its own
\* polling, returns {success:true, transaction, network of the requirements,
\* payer = from of the authorization}.
C26_JobSettlementResponse ==
    \A s \in SReqs : \A j \in VReqs :
        ( /\ sreq[s].pc = "done"
          /\ vreq[j].nonce = sreq[s].nonce /\ engine[j] = "completed"
          /\ sreq[s].reply.success /\ sreq[s].reply.transaction = JobTx(j) )
        => sreq[s].reply =
               SettleResponse(TRUE, JobTx(j), SettlePayload(sreq[s]).network,
                              SettlePayload(sreq[s]).from, "none")

----------------------------------------------------------------------------
(* GET /facilitator/supported *)

\* getSupportedPaymentKinds: the kinds the facilitator advertises.
getSupportedPaymentKinds ==
    { [ scheme |-> "exact", network |-> "ethereum-sepolia" ],
      [ scheme |-> "exact", network |-> "base-sepolia" ],
      [ scheme |-> "exact", network |-> "base" ],
      [ scheme |-> "exact", network |-> "polygon-amoy" ] }

\* A payer takes one of the advertised kinds and has a payment of that kind
\* verified: the network gate of postVerifyPayment, then verifyPaymentForKRNL.
VerifyAdvertised ==
    /\ vreq[1].pc = "idle"
    /\ \E kind \in getSupportedPaymentKinds, chain \in ChainAnswers, value \in Values :
       LET body == MkPayload("nA", "payerA", "shop", value, 0, ExpiryMargin + MaxTime, "payerA", kind.network, kind.scheme, "shop", 2, TRUE)
       IN  vreq' = [ vreq EXCEPT ![1] =
                       [ pc |-> "done", nonce |-> body.nonce, profile |-> "-", internal |-> TRUE,
                         dispatch |-> "none", body |-> body, chain |-> chain, at |-> now,
                         reply |-> IF ~isKRNLNetworkSupported(body.network)
                                   THEN VerifyResponse(FALSE, "invalid_network", body.from)
                                   ELSE verifyPaymentForKRNL(body, chain, now) ] ]
    /\ UNCHANGED <<now, privateKeySet, workflowStore, settlementCache, sreq, poller, engine>>

NextSupported == VerifyAdvertised \/ Tick

SpecSupported == InitValidate /\ [][NextSupported]_vars

\* C27: a payment of an advertised kind passes the scheme check and the
\* network check of verification: with the chain reads answered it is never
\* turned away for its scheme or its network.
C27_AdvertisedIsAccepted ==
    ( Validated /\ ReadsAnswered(VChain) )
    => VResult.invalidReason \notin {"unsupported_scheme", "invalid_network"}

\* C28: whatever the engine answers to a background poller's status request,
\* the poller's update follows the mapping: in progress leaves the entry
\* running and the poller going; completed with a transaction hash makes the
\* entry completed with that transaction as its result; a failure code makes
\* it failed with the engine's failure detail recorded; and the entry is made
\* completed by no other answer.
C28_StatusMapping ==
    \A v \in VReqs :
        ( poller[v].pc = "polling" /\ workflowStore[poller[v].nonce] # NoEntry )
        => \A raw \in EngineStatusReplies(v) :
               LET n == poller[v].nonce
                   it == PollIteration(raw)
                   e == pollAndUpdate(workflowStore, n, it)[n]
                   reported(code) == raw.kind = "ok" /\ raw.code = code
               IN  /\ reported(1)
                      => it.outcome = "sleep" /\ workflowStore[n].status = "running"
                   /\ ( reported(2) /\ raw.result # 0 )
                      => /\ e.status = "completed"
                         /\ e.settleResult.success
                         /\ e.settleResult.transaction = raw.result
                   /\ ( reported(3) \/ ( raw.kind = "ok" /\ raw.code < 0 ) )
                      => /\ e.status = "failed"
                         /\ e.workflowStatus.status = "failed"
                         /\ e.workflowStatus.error = "engine_error"
                   /\ ( it.outcome # "sleep" /\ e.status = "completed" )
                      => ( reported(2) /\ raw.result # 0 )

\* The background pollers started for nonce n.
PollersOf(n) == { v \in VReqs : poller[v].pc # "none" /\ poller[v].nonce = n }

\* C29: for every nonce at most one background poller is ever started; a
\* poller exists only for a dispatch the engine accepted with a workflow id,
\* never for a rejected one or one without id; and every accepted dispatch
\* whose request was answered has its poller.
C29_OnePollerPerAcceptedDispatch ==
    /\ \A n \in Nonces : Cardinality(PollersOf(n)) <= 1
    /\ \A v \in VReqs :
           /\ poller[v].pc # "none"
              => ( vreq[v].dispatch = "accepted" /\ poller[v].nonce = vreq[v].nonce )
           /\ ( vreq[v].pc = "done" /\ vreq[v].dispatch = "accepted" )
              => poller[v].pc # "none"

\* Two client requests carried one nonce: the first was accepted and has its
\* poller, the second was answered without one; and no poller exists for the
\* other nonce.
C29_Witness ==
    /\ vreq[1].pc = "done" /\ vreq[2].pc = "done"
    /\ vreq[1].nonce = "nA" /\ vreq[2].nonce = "nA"
    /\ ~vreq[1].internal /\ ~vreq[2].internal
    /\ vreq[1].dispatch = "accepted" /\ vreq[2].dispatch = "none"
    /\ PollersOf("nA") = {1}
    /\ PollersOf("nB") = {}

\* C30: the step in which a client verify request passes the network gate
\* does the lookup and the insertion together. If its nonce has an entry, the
\* step leaves the whole store as it is (status, workflowId, startedAt and
\* result of the entry included) and answers the request; if it has none,
\* the entry is there, pending, when the step is over, and no other entry is
\* touched.
C30_InsertIfAbsent ==
    [][ \A v \in VReqs :
          LET n == vreq'[v].nonce
          IN  ( /\ vreq[v].pc = "idle" /\ vreq'[v].pc # "idle"
                /\ ~vreq'[v].internal
                /\ isKRNLNetworkSupported(PayloadOf(vreq'[v].profile, n).network) )
              => IF workflowStore[n] # NoEntry
                 THEN /\ workflowStore' = workflowStore
                      /\ vreq'[v].pc = "done"
                 ELSE /\ workflowStore'[n] # NoEntry
                      /\ workflowStore'[n].status = "pending"
                      /\ workflowStore'[n].workflowId = PlaceholderId
                      /\ workflowStore'[n].startedAt = now
                      /\ \A m \in Nonces \ {n} : workflowStore'[m] = workflowStore[m] ]_vars

\* A second request for the nonce was answered from the entry, which still
\* has the workflow id, the start time and the result the first request's
\* job gave it, at a later time.
C30_Witness ==
    /\ vreq[2].pc = "done" /\ vreq[2].nonce = "nA" /\ ~vreq[2].internal
    /\ vreq[2].dispatch = "none" /\ vreq[2].reply.isValid
    /\ now = 1
    /\ workflowStore["nA"] # NoEntry
    /\ workflowStore["nA"].status = "completed"
    /\ workflowStore["nA"].workflowId = 1
    /\ workflowStore["nA"].startedAt = 0
    /\ workflowStore["nA"].settleResult.transaction = JobTx(1)

----------------------------------------------------------------------------
(* The sweep over a store with two nonces *)

\* Verify requests for two nonces, their jobs and pollers, time and the sweep.
NextSweepTwo ==
    \/ VerifyStartOn(Nonces)
    \/ VerifyBuilt
    \/ EngineAdmit
    \/ EngineFinish
    \/ VerifyDispatchReturn
    \/ PollerStatusReply
    \/ PollerWake
    \/ Tick
    \/ Sweep

SpecSweepTwo == Init /\ [][NextSweepTwo]_vars

\* C31: a step that removes an entry is a sweep for some maximum age: it
\* removes exactly the entries older than that age and leaves every other
\* entry as it was, field by field; and a poller that finishes when its nonce
\* has no entry leaves the store without one and ends like any other.
C31_SweepExact ==
    [][ /\ ( \E n \in Nonces : workflowStore[n] # NoEntry /\ workflowStore'[n] = NoEntry )
           => \E maxAgeMs \in 0..MaxTime : \A n \in Nonces :
                  workflowStore'[n] =
                      IF workflowStore[n] # NoEntry /\ now - workflowStore[n].startedAt > maxAgeMs
                      THEN NoEntry
                      ELSE workflowStore[n]
        /\ \A v \in VReqs :
               ( /\ poller[v].pc \in {"polling", "sleeping"} /\ poller'[v].pc = "done"
                 /\ workflowStore[poller[v].nonce] = NoEntry )
               => workflowStore' = workflowStore ]_vars

\* The entry of nA was swept, its poller has ended, and the younger entry of
\* nB is still there with its own poller at work.
C31_Witness ==
    /\ now = 1
    /\ workflowStore["nA"] = NoEntry
    /\ poller[1].nonce = "nA" /\ poller[1].pc = "done"
    /\ workflowStore["nB"] # NoEntry
    /\ workflowStore["nB"].startedAt = 1
    /\ workflowStore["nB"].status = "running"
    /\ poller[2].nonce = "nB" /\ poller[2].pc = "polling"

\* C32: the step that receives an internal verify request answers it with
\* the result of the validation and changes neither the tracker nor the
\* engine nor any poller; the request never dispatches.
C32_InternalOnlyValidates ==
    [][ \A v \in VReqs :
          ( vreq[v].pc = "idle" /\ vreq'[v].pc # "idle" /\ vreq'[v].internal )
          => /\ vreq'[v].pc = "done"
             /\ vreq'[v].dispatch = "none"
             /\ vreq'[v].reply =
                    verifyPaymentForKRNL(PayloadOf(vreq'[v].profile, vreq'[v].nonce),
                                         DefaultChain, now)
             /\ workflowStore' = workflowStore
             /\ engine' = engine
             /\ poller' = poller ]_vars

\* The workflow of the first request is running and its verify step has
\* called back: the internal request was validated, and the nonce still has
\* its one job.
C32_Witness ==
    /\ vreq[1].pc = "done" /\ ~vreq[1].internal /\ vreq[1].dispatch = "accepted"
    /\ engine[1] = "running"
    /\ vreq[2].pc = "done" /\ vreq[2].internal /\ vreq[2].nonce = vreq[1].nonce
    /\ vreq[2].reply.isValid /\ vreq[2].dispatch = "none"
    /\ engine[2] = "none"
    /\ poller[2].pc = "none"

\* The entry holds a settle result that reports success.
HoldsSuccess(e) == e.settleResult # NoResult /\ e.settleResult.success

\* C33: an entry is completed exactly when it holds a settle result with
\* success and a transaction reference; a pending, running or failed entry
\* holds no success result.
C33_CompletedIffResult ==
    \A n \in Nonces :
        LET e == workflowStore[n]
        IN  e # NoEntry
            => /\ ( e.status = "completed" )
                  <=> ( HoldsSuccess(e) /\ e.settleResult.transaction # 0 )
               /\ e.status \in {"pending", "running", "failed"} => ~HoldsSuccess(e)

\* The job completed with its transaction and the poller wrote the entry,
\* before any settle request came.
C33_Witness ==
    /\ workflowStore["nA"] # NoEntry
    /\ workflowStore["nA"].status = "completed"
    /\ HoldsSuccess(workflowStore["nA"])
    /\ workflowStore["nA"].settleResult.transaction = JobTx(1)
    /\ engine[1] = "completed" /\ poller[1].pc = "done"
    /\ \A s \in SReqs : sreq[s].pc = "idle"

----------------------------------------------------------------------------
(* Workflow ids in status queries (C34) *)

\* The workflow ids a status query is outstanding for: the background
\* pollers' (each polls the id its dispatch returned) and the settle
\* requests' (each polls the id it read from the tracker entry).
QueriedIds ==
    { v \in VReqs : poller[v].pc = "poll" }
        \cup { sreq[s].workflowId : s \in { u \in SReqs : sreq[u].pc = "poll" } }

\* C34: every status query sent to the engine carries a workflow id the
\* engine assigned, so a settle request that finds the entry pre-tracked with
\* the placeholder does not poll with the placeholder; and a real workflow id
\* attached to an entry never changes while the entry exists.
C34_OnlyAssignedIdsQueried ==
    [][ /\ \A id \in QueriedIds' : id # PlaceholderId /\ engine'[id] # "none"
        /\ \A n \in Nonces :
              ( /\ workflowStore[n] # NoEntry
                /\ workflowStore[n].workflowId # PlaceholderId
                /\ workflowStore'[n] # NoEntry )
              => workflowStore'[n].workflowId = workflowStore[n].workflowId ]_vars

\* The second half of C34 alone: a real workflow id, once attached, stays.
C34_RealIdStable ==
    [][ \A n \in Nonces :
              ( /\ workflowStore[n] # NoEntry
                /\ workflowStore[n].workflowId # PlaceholderId
                /\ workflowStore'[n] # NoEntry )
              => workflowStore'[n].workflowId = workflowStore[n].workflowId ]_vars

----------------------------------------------------------------------------
(* Leaving the pre-tracked state (C35) *)

\* The entry of nonce n is in the state it is created in: status pending.
EntryPending(n) == workflowStore[n] # NoEntry /\ workflowStore[n].status = "pending"

\* C35: every tracker entry a verify request creates eventually leaves the
\* pending state, on every outcome of the verify path: dispatch accepted,
\* dispatch rejected, workflow build throwing after the entry was tracked,
\* and a dispatch answered without a workflow id.
C35_PendingEventuallyLeft == \A n \in Nonces : EntryPending(n) ~> ~EntryPending(n)

\* The part of C35 the code does: after an accepted or a rejected dispatch
\* the entry leaves the pending state.
C35_AnsweredDispatchLeaves ==
    \A v \in VReqs, n \in Nonces :
        ( /\ vreq[v].nonce = n
          /\ vreq[v].pc = "dispatch"
          /\ vreq[v].dispatch \in {"accepted", "rejected"} ) ~> ~EntryPending(n)

----------------------------------------------------------------------------
(* Settlements initiated per nonce (C36) *)

\* The settle requests for nonce n whose own call of the on-chain settle
\* operation has returned: with its transaction, or with a failure result.
DirectSubmissions(n) ==
    { s \in SReqs :
        /\ sreq[s].nonce = n
        /\ sreq[s].pc = "done"
        /\ \/ sreq[s].reply.transaction = DirectTx(s)
           \/ sreq[s].reply.errorReason = "invalid_transaction_state" }

\* C36: for every nonce, the accepted workflow dispatches and the direct
\* on-chain settle submissions of the settle handler together number at most
\* one, in every interleaving of verify requests, settle requests and
\* poller steps.
C36_AtMostOneSettlementInitiated ==
    \A n \in Nonces : Cardinality(JobsOf(n)) + Cardinality(DirectSubmissions(n)) <= 1

\* The part of C36 that C1 gives: at most one accepted dispatch per nonce.
C36_AtMostOneJob == \A n \in Nonces : Cardinality(JobsOf(n)) <= 1

----------------------------------------------------------------------------
(* Repeated settle requests (C37) *)

\* Settle request s has returned success.
ReturnedSuccess(s) == sreq[s].pc = "done" /\ sreq[s].reply.success

\* C37: once a settle request for a nonce has returned success with
\* transaction T, a settle request for that nonce that arrives later returns
\* success with the same T, whatever the background poller has done in
\* between. Stated on the step in which the later request arrives: if it is
\* answered in that step the answer is success with T, and otherwise it is
\* waiting for the workflow, not starting a settlement of its own (whose
\* answer would be another transaction or a failure).
C37_LaterSettleSameTransaction ==
    [][ \A s1, s2 \in SReqs :
            ( /\ SettleStarts(s2)
              /\ ReturnedSuccess(s1)
              /\ sreq'[s2].nonce = sreq[s1].nonce )
            => /\ sreq'[s2].pc # "chain"
               /\ sreq'[s2].pc = "done"
                  => /\ sreq'[s2].reply.success
                     /\ sreq'[s2].reply.transaction = sreq[s1].reply.transaction ]_vars

----------------------------------------------------------------------------
(* The direct-settlement path (C38) *)

\* Settle request s enters fallbackSettle in this transition: on arrival,
\* with no entry or a failed one, or after its own wait for the workflow
\* ended without a settled transaction.
TakesDirectPath(s) ==
    \/ /\ SettleStarts(s)
       /\ \/ workflowStore[sreq'[s].nonce] = NoEntry
          \/ workflowStore[sreq'[s].nonce].status = "failed"
    \/ /\ sreq[s].pc = "sleep"
       /\ sreq'[s].pc \in {"chain", "done"}
    \/ /\ sreq[s].pc = "poll"
       /\ sreq'[s].pc \in {"chain", "done"}
       /\ ~( /\ sreq'[s].pc = "done"
             /\ sreq'[s].reply.success
             /\ sreq'[s].reply.transaction \in 1..MaxVerify )

\* A request entering the direct path when a successful direct settlement
\* of its nonce is cached returns the cached result and settles nothing.
CachedResultReused ==
    \A s \in SReqs :
        ( TakesDirectPath(s) /\ settlementCache[sreq'[s].nonce] # NoResult )
        => /\ sreq'[s].pc = "done"
           /\ sreq'[s].reply = settlementCache[sreq'[s].nonce]
           /\ settlementCache' = settlementCache

\* C38: settle requests for one nonce that take the direct-settlement path,
\* concurrent or not, lead to at most one call of the on-chain settle
\* operation; and after a successful direct settlement every later request
\* on that path returns the identical cached result without settling again.
C38_DirectSettlesOnce ==
    [][ /\ \A n \in Nonces : Cardinality(DirectSubmissions(n)') <= 1
        /\ CachedResultReused ]_vars

\* The second half of C38 alone.
C38_CachedReused == [][ CachedResultReused ]_vars

\* A request on the direct path was answered from the cache.
C38_CachedReusedWitness ==
    \E s1, s2 \in SReqs :
        /\ s1 # s2
        /\ sreq[s1].pc = "done" /\ sreq[s2].pc = "done"
        /\ sreq[s1].reply.transaction = DirectTx(s1)
        /\ sreq[s2].reply = sreq[s1].reply

----------------------------------------------------------------------------
(* Two payers using one nonce value (C39) *)

\* Verify requests for nonce nA from either payer.
VerifyStartPayers == \E v \in VReqs, profile \in PayerProfiles :
    postVerifyPayment(v, "nA", profile, FALSE)

\* The server receiving, for one nonce value, verify and settle requests
\* whose authorizations come from two different accounts.
NextPayers ==
    \/ VerifyStartPayers
    \/ VerifyBuilt
    \/ EngineAdmit
    \/ EngineFinish
    \/ VerifyDispatchReturn
    \/ PollerStatusReply
    \/ PollerWake
    \/ SettleStartFrom(SReqs, {"nA"}, PayerProfiles)
    \/ SettlePollReply
    \/ SettleWake
    \/ SettleChainReturn

SpecPayers == Init /\ [][NextPayers]_vars

\* The account whose verify request created the entry of nonce n: the first
\* client request for n that reached the middleware.
EntryPayer(n) ==
    LET tracked == { u \in VReqs : /\ vreq[u].pc # "idle" /\ vreq[u].nonce = n
                                   /\ ~vreq[u].internal
                                   /\ isKRNLNetworkSupported(
                                          PayloadOf(vreq[u].profile, n).network) }
        first == CHOOSE u \in tracked : \A w \in tracked : u <= w
    IN  PayloadOf(vreq[first].profile, n).from

\* The account for which transaction t was settled: the payer of job t's
\* authorization, or of the settle request that submitted t directly.
SettledFor(t) ==
    IF t \in 1..MaxVerify THEN PayloadOf(vreq[t].profile, vreq[t].nonce).from
    ELSE SettlePayload(sreq[t - MaxVerify]).from

\* Verify request v takes its first step in this transition.
VerifyStarts(v) == vreq[v].pc = "idle" /\ vreq'[v].pc # "idle"

\* Every settle request answered with success has the transaction settled
\* for its own payer, and names no other account as payer.
SettleServesOwnPayer ==
    \A s \in SReqs :
        ( sreq[s].pc = "done" /\ sreq[s].reply.success )
        => /\ SettledFor(sreq[s].reply.transaction) = SettlePayload(sreq[s]).from
           /\ sreq[s].reply.payer \in {SettlePayload(sreq[s]).from, "undefined"}

\* C39: results are never served across payers. A verify request whose
\* authorization has another `from` than the one the nonce's entry was created
\* for is not answered isValid:true from that entry; and a settle request that
\* returns success returns a transaction settled for its own payer and no
\* other account as payer.
C39_NeverAcrossPayers ==
    [][ /\ \A v \in VReqs :
              ( /\ VerifyStarts(v)
                /\ workflowStore[vreq'[v].nonce] # NoEntry
                /\ PayloadOf(vreq'[v].profile, vreq'[v].nonce).from
                       # EntryPayer(vreq'[v].nonce) )
              => ~( vreq'[v].pc = "done" /\ vreq'[v].reply.isValid )
        /\ SettleServesOwnPayer' ]_vars
====
